---- MODULE Spec2Model ----
(***************************************************************************)
(* Model of discovery-rs: the filtered selectable list (src/src/list.rs),  *)
(* its search buffer (src/src/search.rs), the identity of list entries     *)
(* (src/src/info.rs) and the background event handler of the application   *)
(* (src/src/main.rs).                                                      *)
(*                                                                         *)
(* Option<T> is modelled as a sequence of length at most one: None is <<>> *)
(* and Some(x) is <<x>>.  Strings are sequences of one-character strings.  *)
(***************************************************************************)
EXTENDS Integers, Sequences, FiniteSets, TLC

VARIABLES
    list,        \* a ListWidget<Info> driven through its own interface
    last,        \* history: the operation that led to the current state of list
    services,    \* App::services, the ListWidget<String> of service types
    instances,   \* App::instances, service type -> Option<ListWidget<Info>>
    current_tab, \* App::current_tab
    locks,       \* owner of each of the three mutexes
    mdns,        \* the ServiceDaemon: "running", "shutdown", and its poison flag
    stop_ch,     \* number of messages in the bounded(1) stop channel
    receivers,   \* the background thread's Vec of browse receivers
    waitset,     \* the receivers the current Selector was built from
    bg,          \* background thread: program counter, event in hand, stop flag
    fg,          \* foreground thread: program counter, key in hand
    handled,     \* history: number of events taken by the background thread
    tracked      \* history: names found under the query and not removed since

----------------------------------------------------------------------------
(* Bounds of the model                                                     *)

\* longest search buffer a user types
MaxBuf == 2
\* largest |delta| handed to select_delta directly
MaxDelta == 2
\* number of found / resolved / removed events the background thread handles
\* in one run (search lifecycle notifications are not limited)
MaxEvents == 4

----------------------------------------------------------------------------
(* Option                                                                  *)

None == <<>>

Some(x) == <<x>>

IsSome(o) == Len(o) = 1

Unwrap(o) == o[1]

----------------------------------------------------------------------------
(* Entries and their identity                                              *)

\* host names / service names used as entry identities
Ids == { <<"a">>, <<"b">>, <<"a", "b">> }

\* everything of a ServiceInfo besides its host name
Payloads == { "p1", "p2" }

\* the Infos the discovery reports; equality and id() look at the host name
\* only, and host a is reported with two different payloads
Infos == { x \in [id : Ids, data : Payloads] : x.data = "p2" => x.id = <<"a">> }

\* impl PartialEq for Info: host names are compared, nothing else
ItemEq(x, y) == x.id = y.id

\* ListEntry::id
EntryId(x) == x.id

----------------------------------------------------------------------------
(* Patterns.  The regex crate is used on a fragment: the characters typed  *)
(* are the literal b and the opening bracket, which starts a character     *)
(* class that is never closed.                                             *)

SearchChars == { "b", "[" }

RECURSIVE HasChar(_, _)
HasChar(s, c) ==
    IF s = <<>> THEN FALSE
    ELSE IF Head(s) = c THEN TRUE
    ELSE HasChar(Tail(s), c)

\* Regex::new: an unclosed character class is a parse error, a string of
\* literals compiles to itself
RegexNew(s) ==
    IF HasChar(s, "[")
    THEN [ok |-> FALSE, regex |-> <<>>]
    ELSE [ok |-> TRUE, regex |-> s]

\* Regex::is_match of a string of literals: unanchored, so a substring search
IsMatch(regex, text) ==
    \E i \in 1..(Len(text) + 1) :
        /\ i + Len(regex) - 1 <= Len(text)
        /\ \A j \in 1..Len(regex) : text[i + j - 1] = regex[j]

\* Search::compile_regex: anyhow::Result<Option<Regex>>
compile_regex(search) ==
    IF IsSome(search)
    THEN LET r == RegexNew(Unwrap(search))
         IN  IF r.ok THEN [ok |-> TRUE, val |-> Some(r.regex)]
                     ELSE [ok |-> FALSE, val |-> None]
    ELSE [ok |-> TRUE, val |-> None]

\* Result::ok().flatten() at the Enter key of ListWidget::process_key_event
OkFlatten(res) == IF res.ok THEN res.val ELSE None

----------------------------------------------------------------------------
(* ListWidget<Item>                                                        *)

\* impl Default for ListWidget
ListWidgetDefault ==
    [items |-> <<>>, selected |-> None, search_regex |-> None,
     search |-> None, current_mode |-> "Display"]

\* Vec::contains with the entry's PartialEq
Contains(items, item) == \E i \in DOMAIN items : ItemEq(items[i], item)

\* Vec::remove(index)
RemoveAt(items, index) ==
    SubSeq(items, 1, index - 1) \o SubSeq(items, index + 1, Len(items))

\* ListWidget::filtered
filtered(w) ==
    IF IsSome(w.search_regex)
    THEN SelectSeq(w.items, LAMBDA it : IsMatch(Unwrap(w.search_regex), EntryId(it)))
    ELSE w.items

\* ListWidget::selected: filtered.get(state.selected().unwrap_or(0))
selected(w) ==
    LET f == filtered(w)
        i == IF IsSome(w.selected) THEN Unwrap(w.selected) ELSE 0
    IN  IF i < Len(f) THEN Some(f[i + 1]) ELSE None

\* push without the contains() test: every push appends
push_NoDedup(w, item) ==
    LET sel1 == IF w.selected = None THEN Some(0) ELSE w.selected
    IN  [w EXCEPT !.items = Append(w.items, item), !.selected = sel1]

\* ListWidget::push
push(w, item) ==
    LET items1 == IF ~Contains(w.items, item) THEN Append(w.items, item) ELSE w.items
        sel1 == IF w.selected = None THEN Some(0) ELSE w.selected
    IN  [w EXCEPT !.items = items1, !.selected = sel1]

\* remove with the comparison inverted: the first entry with another id goes
remove_FirstOther(w, id) ==
    LET found == { i \in DOMAIN w.items : EntryId(w.items[i]) # id }
        items1 == IF found # {}
                  THEN RemoveAt(w.items, CHOOSE i \in found : \A j \in found : i <= j)
                  ELSE w.items
        sel1 == IF items1 = <<>> THEN None ELSE w.selected
    IN  [w EXCEPT !.items = items1, !.selected = sel1]

\* remove without the final deselect when the last item is gone
remove_KeepsCursor(w, id) ==
    LET found == { i \in DOMAIN w.items : EntryId(w.items[i]) = id }
        items1 == IF found # {}
                  THEN RemoveAt(w.items, CHOOSE i \in found : \A j \in found : i <= j)
                  ELSE w.items
    IN  [w EXCEPT !.items = items1]

\* ListWidget::remove
remove(w, id) ==
    LET found == { i \in DOMAIN w.items : EntryId(w.items[i]) = id }
        items1 == IF found # {}
                  THEN RemoveAt(w.items, CHOOSE i \in found : \A j \in found : i <= j)
                  ELSE w.items
        sel1 == IF items1 = <<>> THEN None ELSE w.selected
    IN  [w EXCEPT !.items = items1, !.selected = sel1]

\* the magnitude of the truncated remainder (%) instead of rem_euclid
RemEuclid_Truncated(a, n) ==
    IF a >= 0 THEN a % n ELSE (-a) % n

\* isize::rem_euclid for a positive modulus
RemEuclid(a, n) ==
    LET r == IF a >= 0 THEN a % n ELSE -((-a) % n)
    IN  IF r < 0 THEN r + n ELSE r

\* ListWidget::select_delta
select_delta(w, delta) ==
    LET f == filtered(w)
    IN  IF f # <<>>
        THEN LET len == Len(f)
                 index == IF IsSome(w.selected)
                          THEN RemEuclid(Unwrap(w.selected) + delta, len)
                          ELSE 0
             IN  [w EXCEPT !.selected = Some(index)]
        ELSE w

\* ListWidget::next
next(w) == select_delta(w, 1)

\* ListWidget::prev
prev(w) == select_delta(w, -1)

\* ListWidget::top
top(w) ==
    LET s == IF IsSome(w.selected) THEN Unwrap(w.selected) ELSE 0
    IN  select_delta(w, (-1) * s)

\* ListWidget::bottom
bottom(w) ==
    LET s == IF IsSome(w.selected) THEN Unwrap(w.selected) ELSE 0
    IN  select_delta(w, s)

\* update_filter that looks at the filtered view before it stores the pattern
update_filter_StaleView(w, regex) ==
    LET w1 == [w EXCEPT !.search_regex = regex]
    IN  IF filtered(w) # <<>>
        THEN [w1 EXCEPT !.selected = Some(0)]
        ELSE w1

\* ListWidget::update_filter
update_filter(w, regex) ==
    LET w1 == [w EXCEPT !.search_regex = regex]
    IN  IF filtered(w1) # <<>>
        THEN [w1 EXCEPT !.selected = Some(0)]
        ELSE w1

----------------------------------------------------------------------------
(* Keys                                                                    *)

Key(code, c) == [code |-> code, c |-> c]

\* the keys a user presses on a list
Keys ==
    { Key(k, "") : k \in {"Esc", "Enter", "Backspace", "Down", "Up", "Tab"} }
    \cup { Key("Char", c) : c \in SearchChars \cup {"g", "G", "/"} }

\* String::pop
Pop(s) == IF s = <<>> THEN s ELSE SubSeq(s, 1, Len(s) - 1)

\* Search::process_key_event without the final check that turns an empty
\* buffer into None
search_process_key_event_KeepsEmpty(search, key) ==
    IF IsSome(search) /\ key.code = "Char"
        THEN Some(Append(Unwrap(search), key.c))
    ELSE IF IsSome(search) /\ key.code = "Backspace"
        THEN Some(Pop(Unwrap(search)))
    ELSE IF search = None /\ key.code = "Char"
        THEN Some(<<key.c>>)
    ELSE search

\* Search::process_key_event
search_process_key_event(search, key) ==
    LET s1 == IF IsSome(search) /\ key.code = "Char"
                  THEN Some(Append(Unwrap(search), key.c))
              ELSE IF IsSome(search) /\ key.code = "Backspace"
                  THEN Some(Pop(Unwrap(search)))
              ELSE IF search = None /\ key.code = "Char"
                  THEN Some(<<key.c>>)
              ELSE search
    IN  IF IsSome(s1) /\ Unwrap(s1) # <<>> THEN s1 ELSE None

\* ListWidget::process_key_event
process_key_event(w, key) ==
    IF w.current_mode = "Search"
    THEN CASE key.code = "Esc" ->
                [w EXCEPT !.current_mode = "Display"]
           [] key.code = "Enter" ->
                update_filter([w EXCEPT !.current_mode = "Display"],
                              OkFlatten(compile_regex(w.search)))
           [] key.code \in {"Char", "Backspace"} ->
                [w EXCEPT !.search = search_process_key_event(w.search, key)]
           [] OTHER -> w
    ELSE CASE key.code = "Down" -> next(w)
           [] key.code = "Up" -> prev(w)
           [] key.code = "Char" /\ key.c = "g" -> top(w)
           [] key.code = "Char" /\ key.c = "G" -> bottom(w)
           [] key.code = "Char" /\ key.c = "/" -> [w EXCEPT !.current_mode = "Search"]
           [] OTHER -> w

----------------------------------------------------------------------------
(* A ListWidget<Info> on its own: every operation of its interface, from   *)
(* every state the operations can reach.                                   *)

listVars == <<list, last>>

appVars == <<services, instances, current_tab, locks, mdns, stop_ch, receivers,
             waitset, bg, fg, handled, tracked>>

vars == <<list, last, services, instances, current_tab, locks, mdns, stop_ch,
          receivers, waitset, bg, fg, handled, tracked>>

Deltas == (-MaxDelta)..MaxDelta

\* the strings of length 1..n over a set of characters
RECURSIVE Strings(_, _)
Strings(chars, n) ==
    IF n = 0 THEN {}
    ELSE LET shorter == Strings(chars, n - 1)
         IN  { <<c>> : c \in chars } \cup shorter
             \cup { Append(s, c) : s \in shorter, c \in chars }

\* the patterns update_filter can receive: none, or a compiled string
Patterns ==
    { None } \cup { Some(RegexNew(s).regex) :
                      s \in { t \in Strings(SearchChars, MaxBuf) : RegexNew(t).ok } }

Last(op, d, hit) == [op |-> op, d |-> d, pre |-> list.selected, hit |-> hit]

ListInit ==
    /\ list = ListWidgetDefault
    /\ last = [op |-> "new", d |-> 0, pre |-> None, hit |-> FALSE]

Push(item) ==
    /\ list' = push(list, item)
    /\ last' = Last("push", 0, Contains(list.items, item))
    /\ UNCHANGED appVars

Remove(id) ==
    /\ list' = remove(list, id)
    /\ last' = Last("remove", 0, \E i \in DOMAIN list.items : EntryId(list.items[i]) = id)
    /\ UNCHANGED appVars

MoveBy(d) ==
    /\ list' = select_delta(list, d)
    /\ last' = Last("select_delta", d, FALSE)
    /\ UNCHANGED appVars

Top ==
    /\ list' = top(list)
    /\ last' = Last("top", 0, FALSE)
    /\ UNCHANGED appVars

Bottom ==
    /\ list' = bottom(list)
    /\ last' = Last("bottom", 0, FALSE)
    /\ UNCHANGED appVars

SetFilter(regex) ==
    /\ list' = update_filter(list, regex)
    /\ last' = Last("update_filter", 0,
                    last.op = "update_filter" /\ list.search_regex = regex)
    /\ UNCHANGED appVars

\* a key press; in Search mode the characters typed are those of SearchChars
\* and the buffer is not typed beyond MaxBuf characters
KeyEvent(key) ==
    /\ (list.current_mode = "Search" /\ key.code = "Char")
            => (key.c \in SearchChars
                /\ (IsSome(list.search) => Len(Unwrap(list.search)) < MaxBuf))
    /\ list' = process_key_event(list, key)
    /\ last' = Last(key.code, 0,
                    /\ key.code = "Enter"
                    /\ list.current_mode = "Search"
                    /\ list.search = None
                    /\ IsSome(list.search_regex))
    /\ UNCHANGED appVars

\* one operation on the list
ListNext ==
    \/ \E item \in Infos : Push(item)
    \/ \E id \in Ids : Remove(id)
    \/ \E d \in Deltas : MoveBy(d)
    \/ Top
    \/ Bottom
    \/ \E regex \in Patterns : SetFilter(regex)
    \/ \E key \in Keys : KeyEvent(key)

----------------------------------------------------------------------------
(* The application: the background thread spawned by App::new and the      *)
(* foreground thread running main.                                         *)

\* the query handed to App::new
Query == <<"q">>

\* the service types the daemon reports under the query
Types == { <<"a">>, <<"b">> }

\* host names of resolved instances
Hosts == { <<"a">>, <<"b">> }

\* the full name of the instance on a host
FullName(host) == <<"i">> \o host

\* impl<D: Display> ListEntry for D: a String is its own id
StringEntry(name) == [id |-> name, data |-> "str"]

\* Info { info }: host name, type and full name of the ServiceInfo
InfoEntry(e) == [id |-> e.host, data |-> "p1", ty |-> e.ty, fullname |-> e.name]

Event(kind, ty, name, host) == [kind |-> kind, ty |-> ty, name |-> name, host |-> host]

\* the ServiceEvents a receiver can deliver
Events ==
    { Event("ServiceFound", Query, t, <<>>) : t \in Types }
    \cup { Event("ServiceFound", t, FullName(h), <<>>) : t \in Types, h \in Hosts }
    \cup { Event("ServiceResolved", t, FullName(h), h) : t \in Types, h \in Hosts }
    \cup { Event("ServiceRemoved", Query, t, <<>>) : t \in Types }
    \cup { Event("ServiceRemoved", t, FullName(h), <<>>) : t \in Types, h \in Hosts }
    \cup { Event(k, t, <<>>, <<>>) : k \in {"SearchStarted", "SearchStopped"},
                                    t \in {Query} \cup Types }

NoEvent == Event("none", <<>>, <<>>, <<>>)

Range(seq) == { seq[i] : i \in DOMAIN seq }

Bg(pc) == [bg EXCEPT !.pc = pc]

Fg(pc) == [fg EXCEPT !.pc = pc]

\* the process is alive: main has not returned
Running == fg.pc \notin {"exit", "exit_err", "panicked"}

Init ==
    /\ ListInit
    /\ services = ListWidgetDefault
    /\ instances = [t \in Types |-> None]
    /\ current_tab = "Services"
    /\ locks = [services |-> "free", instances |-> "free", mdns |-> "free"]
    /\ mdns = [state |-> "running", poisoned |-> FALSE]
    /\ stop_ch = 0
    /\ receivers = <<Query>>
    /\ waitset = <<>>
    /\ bg = [pc |-> "loop", ev |-> NoEvent, stop |-> FALSE]
    /\ fg = [pc |-> "draw", key |-> "", sel |-> None]
    /\ handled = 0
    /\ tracked = {}

ListSpec == Init /\ [][ListNext]_vars

----------------------------------------------------------------------------
(* Background thread: the select loop and the event handler                *)

\* history: the names found under the query and not removed since
Track(e) ==
    IF e.ty = Query /\ e.kind = "ServiceFound" THEN tracked \cup {e.name}
    ELSE IF e.ty = Query /\ e.kind = "ServiceRemoved" THEN tracked \ {e.name}
    ELSE tracked

\* the first statement of the handler's match arm for an event
Dispatch(e) ==
    CASE e.kind = "ServiceFound" ->
            IF e.ty = Query THEN "found_lock_services" ELSE "loop"
      [] e.kind = "ServiceResolved" -> "resolved"
      [] e.kind = "ServiceRemoved" ->
            IF e.ty = Query THEN "removed_services" ELSE "removed_instance"
      [] OTHER -> "loop"

\* while !stop.load(..): leave the loop, or snapshot the receivers and build
\* the Selector
BgLoop ==
    /\ Running
    /\ bg.pc = "loop"
    /\ IF bg.stop
       THEN /\ bg' = Bg("done")
            /\ waitset' = <<>>
       ELSE /\ bg' = Bg("wait")
            /\ waitset' = receivers
    /\ UNCHANGED <<listVars, services, instances, current_tab, locks, mdns,
                   stop_ch, receivers, fg, handled, tracked>>

\* selector.wait() takes the stop message
BgRecvStop ==
    /\ Running
    /\ bg.pc = "wait"
    /\ stop_ch > 0
    /\ stop_ch' = stop_ch - 1
    /\ bg' = [bg EXCEPT !.pc = "loop", !.stop = TRUE]
    /\ UNCHANGED <<listVars, services, instances, current_tab, locks, mdns,
                   receivers, waitset, fg, handled, tracked>>

\* SearchStarted / SearchStopped are only logged: they change no state
Lifecycle(e) == e.kind \in {"SearchStarted", "SearchStopped"}

\* selector.wait() takes an event from one of the receivers it was built from
BgRecvEvent(e) ==
    /\ Running
    /\ bg.pc = "wait"
    /\ Lifecycle(e) \/ handled < MaxEvents
    /\ e.ty \in Range(waitset)
    /\ bg' = [bg EXCEPT !.pc = Dispatch(e), !.ev = e]
    /\ handled' = IF Lifecycle(e) THEN handled ELSE handled + 1
    /\ tracked' = Track(e)
    /\ UNCHANGED <<listVars, services, instances, current_tab, locks, mdns,
                   stop_ch, receivers, waitset, fg>>

\* ServiceFound: services.lock().expect(..)
BgFoundLockServices ==
    /\ Running
    /\ bg.pc = "found_lock_services"
    /\ locks.services = "free"
    /\ locks' = [locks EXCEPT !.services = "bg"]
    /\ bg' = Bg("found_push")
    /\ UNCHANGED <<listVars, services, instances, current_tab, mdns, stop_ch,
                   receivers, waitset, fg, handled, tracked>>

\* the push with the guard bound to a name that lives to the end of the
\* block: the services lock is still held when the instances lock is taken
BgFoundPush_KeepsGuard ==
    /\ Running
    /\ bg.pc = "found_push"
    /\ services' = push(services, StringEntry(bg.ev.name))
    /\ bg' = Bg("found_lock_instances")
    /\ UNCHANGED <<listVars, instances, current_tab, locks, mdns, stop_ch,
                   receivers, waitset, fg, handled, tracked>>

\* ServiceFound: .push(full_name.clone()); the guard is a temporary of this
\* statement and is dropped at its end
BgFoundPush ==
    /\ Running
    /\ bg.pc = "found_push"
    /\ services' = push(services, StringEntry(bg.ev.name))
    /\ locks' = [locks EXCEPT !.services = "free"]
    /\ bg' = Bg("found_lock_instances")
    /\ UNCHANGED <<listVars, instances, current_tab, mdns, stop_ch,
                   receivers, waitset, fg, handled, tracked>>

\* ServiceFound: instances.lock().expect(..)
BgFoundLockInstances ==
    /\ Running
    /\ bg.pc = "found_lock_instances"
    /\ locks.instances = "free"
    /\ locks' = [locks EXCEPT !.instances = "bg"]
    /\ bg' = Bg("found_insert")
    /\ UNCHANGED <<listVars, services, instances, current_tab, mdns, stop_ch,
                   receivers, waitset, fg, handled, tracked>>

\* the insert with the guard bound to a name that lives to the end of the
\* block: the lock is still held when browse is called
BgFoundInsert_KeepsGuard ==
    /\ Running
    /\ bg.pc = "found_insert"
    /\ instances' = [instances EXCEPT ![bg.ev.name] = Some(ListWidgetDefault)]
    /\ bg' = Bg("found_lock_mdns")
    /\ UNCHANGED <<listVars, services, current_tab, locks, mdns, stop_ch,
                   receivers, waitset, fg, handled, tracked>>

\* ServiceFound: .insert(full_name.clone(), ListWidget::new()); the guard is
\* dropped at the end of the statement
BgFoundInsert ==
    /\ Running
    /\ bg.pc = "found_insert"
    /\ instances' = [instances EXCEPT ![bg.ev.name] = Some(ListWidgetDefault)]
    /\ locks' = [locks EXCEPT !.instances = "free"]
    /\ bg' = Bg("found_lock_mdns")
    /\ UNCHANGED <<listVars, services, current_tab, mdns, stop_ch,
                   receivers, waitset, fg, handled, tracked>>

\* ServiceFound: mdns.lock()
BgFoundLockMdns ==
    /\ Running
    /\ bg.pc = "found_lock_mdns"
    /\ locks.mdns = "free"
    /\ locks' = [locks EXCEPT !.mdns = "bg"]
    /\ bg' = Bg("found_browse")
    /\ UNCHANGED <<listVars, services, instances, current_tab, mdns, stop_ch,
                   receivers, waitset, fg, handled, tracked>>

\* ServiceFound: .browse(&full_name).expect(..) under the daemon's lock; a
\* failed browse panics, which ends the thread and poisons the mutex
BgFoundBrowse(ok) ==
    /\ Running
    /\ bg.pc = "found_browse"
    /\ locks' = [locks EXCEPT !.mdns = "free"]
    /\ IF ok
       THEN /\ bg' = Bg("found_register")
            /\ mdns' = mdns
       ELSE /\ bg' = Bg("panicked")
            /\ mdns' = [mdns EXCEPT !.poisoned = TRUE]
    /\ UNCHANGED <<listVars, services, instances, current_tab, stop_ch,
                   receivers, waitset, fg, handled, tracked>>

\* the registration when the Selector is built from the registry itself and
\* not from a clone of it: the push shows in the wait set in flight
BgFoundRegister_SharedSet ==
    /\ Running
    /\ bg.pc = "found_register"
    /\ receivers' = Append(receivers, bg.ev.name)
    /\ waitset' = receivers'
    /\ bg' = Bg("loop")
    /\ UNCHANGED <<listVars, services, instances, current_tab, locks, mdns,
                   stop_ch, fg, handled, tracked>>

\* ServiceFound: receivers.borrow_mut().push(receiver)
BgFoundRegister ==
    /\ Running
    /\ bg.pc = "found_register"
    /\ receivers' = Append(receivers, bg.ev.name)
    /\ bg' = Bg("loop")
    /\ UNCHANGED <<listVars, services, instances, current_tab, locks, mdns,
                   stop_ch, waitset, fg, handled, tracked>>

\* the lookup done with entry(..).or_default(): an untracked type gets a
\* fresh list
BgResolved_OrDefault ==
    /\ Running
    /\ bg.pc = "resolved"
    /\ locks.instances = "free"
    /\ instances' =
          [instances EXCEPT
             ![bg.ev.ty] = Some(push(IF IsSome(instances[bg.ev.ty])
                                     THEN Unwrap(instances[bg.ev.ty])
                                     ELSE ListWidgetDefault,
                                     InfoEntry(bg.ev)))]
    /\ bg' = Bg("loop")
    /\ UNCHANGED <<listVars, services, current_tab, locks, mdns, stop_ch,
                   receivers, waitset, fg, handled, tracked>>

\* ServiceResolved: instances.lock().get_mut(info.get_type()), then push
BgResolved ==
    /\ Running
    /\ bg.pc = "resolved"
    /\ locks.instances = "free"
    /\ instances' =
          IF IsSome(instances[bg.ev.ty])
          THEN [instances EXCEPT
                  ![bg.ev.ty] = Some(push(Unwrap(instances[bg.ev.ty]), InfoEntry(bg.ev)))]
          ELSE instances
    /\ bg' = Bg("loop")
    /\ UNCHANGED <<listVars, services, current_tab, locks, mdns, stop_ch,
                   receivers, waitset, fg, handled, tracked>>

\* ServiceRemoved of the query's type: services.lock().remove(&full_name)
BgRemovedServices ==
    /\ Running
    /\ bg.pc = "removed_services"
    /\ locks.services = "free"
    /\ services' = remove(services, bg.ev.name)
    /\ bg' = Bg("removed_instances")
    /\ UNCHANGED <<listVars, instances, current_tab, locks, mdns, stop_ch,
                   receivers, waitset, fg, handled, tracked>>

\* ServiceRemoved of the query's type: instances.lock().remove(&full_name)
BgRemovedInstances ==
    /\ Running
    /\ bg.pc = "removed_instances"
    /\ locks.instances = "free"
    /\ instances' = [instances EXCEPT ![bg.ev.name] = None]
    /\ bg' = Bg("loop")
    /\ UNCHANGED <<listVars, services, current_tab, locks, mdns, stop_ch,
                   receivers, waitset, fg, handled, tracked>>

\* ServiceRemoved of another type: instances.lock().get_mut(&service_type),
\* then remove(&full_name)
BgRemovedInstance ==
    /\ Running
    /\ bg.pc = "removed_instance"
    /\ locks.instances = "free"
    /\ instances' =
          IF IsSome(instances[bg.ev.ty])
          THEN [instances EXCEPT
                  ![bg.ev.ty] = Some(remove(Unwrap(instances[bg.ev.ty]), bg.ev.name))]
          ELSE instances
    /\ bg' = Bg("loop")
    /\ UNCHANGED <<listVars, services, current_tab, locks, mdns, stop_ch,
                   receivers, waitset, fg, handled, tracked>>

BgNext ==
    \/ BgLoop
    \/ BgRecvStop
    \/ \E e \in Events : BgRecvEvent(e)
    \/ BgFoundLockServices
    \/ BgFoundPush
    \/ BgFoundLockInstances
    \/ BgFoundInsert
    \/ BgFoundLockMdns
    \/ \E ok \in BOOLEAN : BgFoundBrowse(ok)
    \/ BgFoundRegister
    \/ BgResolved
    \/ BgRemovedServices
    \/ BgRemovedInstances
    \/ BgRemovedInstance

----------------------------------------------------------------------------
(* Foreground thread: App::run, the render pass, the key handlers and      *)
(* App::shutdown                                                           *)

\* the keys App::run distinguishes
AppKeys == { "q", "Down", "Up", "Tab", "g", "G", "other" }

NavKeys == { "Down", "Up", "g", "G" }

\* the ListWidget method App::next / previous / go_top / go_bottom calls
Nav(w, key) ==
    CASE key = "Down" -> next(w)
      [] key = "Up" -> prev(w)
      [] key = "g" -> top(w)
      [] key = "G" -> bottom(w)

\* App::switch_tab
switch_tab(tab) == IF tab = "Services" THEN "Instances" ELSE "Services"

\* render: services.lock() for the "Services" block
FgDraw ==
    /\ fg.pc = "draw"
    /\ locks.services = "free"
    /\ locks' = [locks EXCEPT !.services = "fg"]
    /\ fg' = Fg("draw_services")
    /\ UNCHANGED <<listVars, services, instances, current_tab, mdns, stop_ch,
                   receivers, waitset, bg, handled, tracked>>

\* render: the "Services" block is drawn, the guard is dropped
FgDrawServices ==
    /\ fg.pc = "draw_services"
    /\ locks' = [locks EXCEPT !.services = "free"]
    /\ fg' = Fg("draw_selected")
    /\ UNCHANGED <<listVars, services, instances, current_tab, mdns, stop_ch,
                   receivers, waitset, bg, handled, tracked>>

\* render: if let Some(selected) = services.lock().selected(); the guard
\* lives to the end of the if let
FgDrawSelected ==
    /\ fg.pc = "draw_selected"
    /\ locks.services = "free"
    /\ IF IsSome(selected(services))
       THEN /\ locks' = [locks EXCEPT !.services = "fg"]
            /\ fg' = [fg EXCEPT !.pc = "draw_instances",
                                 !.sel = Some(EntryId(Unwrap(selected(services))))]
       ELSE /\ locks' = locks
            /\ fg' = Fg("poll")
    /\ UNCHANGED <<listVars, services, instances, current_tab, mdns, stop_ch,
                   receivers, waitset, bg, handled, tracked>>

\* render: if let Some(instances) = instances.lock().get(selected)
FgDrawInstances ==
    /\ fg.pc = "draw_instances"
    /\ locks.instances = "free"
    /\ IF IsSome(instances[Unwrap(fg.sel)])
       THEN /\ locks' = [locks EXCEPT !.instances = "fg"]
            /\ fg' = Fg("draw_blocks")
       ELSE /\ locks' = [locks EXCEPT !.services = "free"]
            /\ fg' = [fg EXCEPT !.pc = "poll", !.sel = None]
    /\ UNCHANGED <<listVars, services, instances, current_tab, mdns, stop_ch,
                   receivers, waitset, bg, handled, tracked>>

\* render: the "Resolved instances" and "Detailed info" blocks are drawn,
\* both guards are dropped
FgDrawBlocks ==
    /\ fg.pc = "draw_blocks"
    /\ locks' = [locks EXCEPT !.services = "free", !.instances = "free"]
    /\ fg' = [fg EXCEPT !.pc = "poll", !.sel = None]
    /\ UNCHANGED <<listVars, services, instances, current_tab, mdns, stop_ch,
                   receivers, waitset, bg, handled, tracked>>

\* run: poll(250ms) times out
FgPollTimeout ==
    /\ fg.pc = "poll"
    /\ fg' = Fg("draw")
    /\ UNCHANGED <<listVars, services, instances, current_tab, locks, mdns,
                   stop_ch, receivers, waitset, bg, handled, tracked>>

\* run: a key press is read and matched
FgPollKey(key) ==
    /\ fg.pc = "poll"
    /\ IF key = "q" THEN
            /\ fg' = Fg("shutdown_send")
            /\ current_tab' = current_tab
       ELSE IF key = "Tab" THEN
            /\ fg' = Fg("draw")
            /\ current_tab' = switch_tab(current_tab)
       ELSE IF key \in NavKeys THEN
            /\ fg' = [fg EXCEPT !.pc = "nav", !.key = key]
            /\ current_tab' = current_tab
       ELSE /\ fg' = Fg("draw")
            /\ current_tab' = current_tab
    /\ UNCHANGED <<listVars, services, instances, locks, mdns, stop_ch,
                   receivers, waitset, bg, handled, tracked>>

\* next / previous / go_top / go_bottom on Tab::Services
FgNavServices ==
    /\ fg.pc = "nav"
    /\ current_tab = "Services"
    /\ locks.services = "free"
    /\ services' = Nav(services, fg.key)
    /\ fg' = [fg EXCEPT !.pc = "draw", !.key = ""]
    /\ UNCHANGED <<listVars, instances, current_tab, locks, mdns, stop_ch,
                   receivers, waitset, bg, handled, tracked>>

\* next / previous / go_top / go_bottom on Tab::Instances:
\* if let Some(selected) = services.lock().selected()
FgNavSelected ==
    /\ fg.pc = "nav"
    /\ current_tab = "Instances"
    /\ locks.services = "free"
    /\ IF IsSome(selected(services))
       THEN /\ locks' = [locks EXCEPT !.services = "fg"]
            /\ fg' = [fg EXCEPT !.pc = "nav_instances",
                                 !.sel = Some(EntryId(Unwrap(selected(services))))]
       ELSE /\ locks' = locks
            /\ fg' = [fg EXCEPT !.pc = "draw", !.key = ""]
    /\ UNCHANGED <<listVars, services, instances, current_tab, mdns, stop_ch,
                   receivers, waitset, bg, handled, tracked>>

\* the Instances arm with entry(selected).or_default() for the lookup: a
\* selected type without a key gets a fresh list
FgNavInstances_OrDefault ==
    /\ fg.pc = "nav_instances"
    /\ locks.instances = "free"
    /\ instances' =
          [instances EXCEPT
             ![Unwrap(fg.sel)] = Some(Nav(IF IsSome(instances[Unwrap(fg.sel)])
                                          THEN Unwrap(instances[Unwrap(fg.sel)])
                                          ELSE ListWidgetDefault,
                                          fg.key))]
    /\ locks' = [locks EXCEPT !.services = "free"]
    /\ fg' = [fg EXCEPT !.pc = "draw", !.key = "", !.sel = None]
    /\ UNCHANGED <<listVars, services, current_tab, mdns, stop_ch, receivers,
                   waitset, bg, handled, tracked>>

\* ... if let Some(instances) = instances.lock().get_mut(selected), then the
\* ListWidget method; both guards are dropped
FgNavInstances ==
    /\ fg.pc = "nav_instances"
    /\ locks.instances = "free"
    /\ instances' =
          IF IsSome(instances[Unwrap(fg.sel)])
          THEN [instances EXCEPT
                  ![Unwrap(fg.sel)] = Some(Nav(Unwrap(instances[Unwrap(fg.sel)]), fg.key))]
          ELSE instances
    /\ locks' = [locks EXCEPT !.services = "free"]
    /\ fg' = [fg EXCEPT !.pc = "draw", !.key = "", !.sel = None]
    /\ UNCHANGED <<listVars, services, current_tab, mdns, stop_ch, receivers,
                   waitset, bg, handled, tracked>>

\* shutdown: self.stop.send(())?; the send fails once the background thread
\* has dropped the receiving end
FgShutdownSend ==
    /\ fg.pc = "shutdown_send"
    /\ IF bg.pc \in {"done", "panicked"}
       THEN /\ fg' = Fg("exit_err")
            /\ stop_ch' = stop_ch
       ELSE /\ stop_ch < 1
            /\ fg' = Fg("shutdown_lock")
            /\ stop_ch' = stop_ch + 1
    /\ UNCHANGED <<listVars, services, instances, current_tab, locks, mdns,
                   receivers, waitset, bg, handled, tracked>>

\* shutdown: self.mdns.lock().expect(..)
FgShutdownLock ==
    /\ fg.pc = "shutdown_lock"
    /\ locks.mdns = "free"
    /\ IF mdns.poisoned
       THEN /\ fg' = Fg("panicked")
            /\ locks' = locks
       ELSE /\ fg' = Fg("shutdown_call")
            /\ locks' = [locks EXCEPT !.mdns = "fg"]
    /\ UNCHANGED <<listVars, services, instances, current_tab, mdns, stop_ch,
                   receivers, waitset, bg, handled, tracked>>

\* shutdown: .shutdown()? under the daemon's lock, then main returns
FgShutdownCall(ok) ==
    /\ fg.pc = "shutdown_call"
    /\ mdns' = [mdns EXCEPT !.state = "shutdown"]
    /\ locks' = [locks EXCEPT !.mdns = "free"]
    /\ fg' = Fg(IF ok THEN "exit" ELSE "exit_err")
    /\ UNCHANGED <<listVars, services, instances, current_tab, stop_ch,
                   receivers, waitset, bg, handled, tracked>>

FgNext ==
    \/ FgDraw
    \/ FgDrawServices
    \/ FgDrawSelected
    \/ FgDrawInstances
    \/ FgDrawBlocks
    \/ FgPollTimeout
    \/ \E key \in AppKeys : FgPollKey(key)
    \/ FgNavServices
    \/ FgNavSelected
    \/ FgNavInstances
    \/ FgShutdownSend
    \/ FgShutdownLock
    \/ \E ok \in BOOLEAN : FgShutdownCall(ok)

Next == BgNext \/ FgNext

Spec == Init /\ [][Next]_vars

----------------------------------------------------------------------------
(* Properties of the list                                                  *)

\* no two stored entries have the same identity
NoDuplicates(items) ==
    \A i, j \in DOMAIN items : EntryId(items[i]) = EntryId(items[j]) => i = j

\* C1: the cursor, when present, is an index into the filtered view
\* (0 <= cursor < filteredLen), so it is absent when the view is empty.
C1_CursorIndexesFilteredView ==
    IsSome(list.selected) =>
        /\ 0 <= Unwrap(list.selected)
        /\ Unwrap(list.selected) < Len(filtered(list))

\* C2: the stored sequence never holds two entries of equal identity; a push
\* of an identity already stored leaves the stored sequence as it is, and a
\* push of a new identity appends, so stored entries keep their positions.
C2_UniqueFirstInsertWins ==
    [][ /\ NoDuplicates(list'.items)
        /\ \A item \in Infos :
              Push(item) =>
                  IF \E i \in DOMAIN list.items : list.items[i].id = item.id
                  THEN list'.items = list.items
                  ELSE list'.items = Append(list.items, item) ]_vars

\* a duplicate push with a different payload has been ignored
C2_Witness ==
    /\ last.op = "push"
    /\ last.hit
    /\ Len(list.items) >= 2
    /\ \E i \in DOMAIN list.items :
          list.items[i].id = <<"a">> /\ list.items[i].data = "p1"

\* C3: with a filtered view of length L > 0 and cursor c, select_delta(d)
\* sets the cursor to the non-negative remainder of c + d modulo L and
\* leaves the rest alone; with an empty filtered view it changes nothing.
C3_MoveByIsEuclideanMod ==
    [][ \A d \in Deltas :
          MoveBy(d) =>
              LET L == Len(filtered(list))
              IN  /\ (L > 0 /\ IsSome(list.selected)) =>
                        list' = [list EXCEPT
                                   !.selected = Some((Unwrap(list.selected) + d) % L)]
                  /\ (L = 0) => list' = list ]_vars

\* moving by -1 from index 0 of a view of three has wrapped to index 2
C3_Witness ==
    /\ last.op = "select_delta"
    /\ last.d = -1
    /\ last.pre = Some(0)
    /\ Len(filtered(list)) = 3
    /\ list.selected = Some(2)

\* C4: after bottom() on a non-empty filtered view of length L the cursor
\* is L - 1.
C4_BottomSelectsLast ==
    (last.op = "bottom" /\ filtered(list) # <<>>) =>
        list.selected = Some(Len(filtered(list)) - 1)

\* C5: after update_filter the cursor is 0 if the new filtered view is
\* non-empty and absent if it is empty.
C5_SetFilterResetsCursor ==
    last.op = "update_filter" =>
        IF filtered(list) # <<>>
        THEN list.selected = Some(0)
        ELSE list.selected = None

\* C6: Enter in Search mode with a buffer that does not compile leaves the
\* active filter, the filtered view and the cursor as they were.
C6_InvalidPatternKeepsFilter ==
    [][ (/\ KeyEvent(Key("Enter", ""))
         /\ list.current_mode = "Search"
         /\ ~compile_regex(list.search).ok)
        => /\ list'.search_regex = list.search_regex
           /\ filtered(list') = filtered(list)
           /\ list'.selected = list.selected ]_vars

\* C7: selected() is the entry at the cursor of the filtered view whenever a
\* cursor is present, and is nothing exactly when no cursor is present.
C7_SelectedIsEntryAtCursor ==
    /\ IsSome(list.selected) =>
          /\ Unwrap(list.selected) < Len(filtered(list))
          /\ selected(list) = Some(filtered(list)[Unwrap(list.selected) + 1])
    /\ (selected(list) = None) <=> (list.selected = None)

\* C8: with a non-empty filtered view and a cursor c, select_delta(d)
\* followed by select_delta(-d) leaves the cursor at c, for every d.
C8_MoveByRoundTrip ==
    (filtered(list) # <<>> /\ IsSome(list.selected)) =>
        \A d \in Deltas :
            select_delta(select_delta(list, d), -d).selected = list.selected

\* C9: update_filter with the same pattern twice gives the same pattern,
\* filtered view and cursor as update_filter with it once.
C9_FilterIdempotent ==
    \A regex \in Patterns :
        LET once == update_filter(list, regex)
            twice == update_filter(once, regex)
        IN  /\ twice.search_regex = once.search_regex
            /\ filtered(twice) = filtered(once)
            /\ twice.selected = once.selected

\* the same pattern has been applied twice in a row and shows two of the
\* three stored entries
C9_Witness ==
    /\ last.op = "update_filter"
    /\ last.hit
    /\ IsSome(list.search_regex)
    /\ Len(filtered(list)) = 2
    /\ Len(list.items) = 3
    /\ list.selected = Some(0)

\* C15: a step that takes the list from Display mode to Search mode leaves the
\* search buffer absent
C15_SearchStartsWithNoBuffer ==
    [][ (list.current_mode = "Display" /\ list'.current_mode = "Search")
            => list'.search = None ]_vars

\* C16: the search buffer is never Some(""); Backspace on a one-character
\* buffer makes it None; Enter in Search mode with no buffer goes to Display
\* mode with no filter (every item is in the view), and the list it leaves is
\* the one update_filter(None) gives
C16_EmptyBufferIsAbsent ==
    [][ /\ list'.search # Some(<<>>)
        /\ ( /\ last'.op = "Backspace"
             /\ list.current_mode = "Search"
             /\ IsSome(list.search)
             /\ Len(Unwrap(list.search)) = 1 ) => list'.search = None
        /\ ( /\ last'.op = "Enter"
             /\ list.current_mode = "Search"
             /\ list.search = None ) =>
                /\ list'.current_mode = "Display"
                /\ list'.search_regex = None
                /\ filtered(list') = list.items
                /\ list' = [update_filter(list, None) EXCEPT !.current_mode = "Display"]
      ]_vars

\* Enter was pressed in Search mode with no buffer while a filter was active
C16_Witness ==
    /\ last.op = "Enter"
    /\ last.hit
    /\ list.items # <<>>
    /\ list.search = None
    /\ list.search_regex = None
    /\ list.current_mode = "Display"

\* C27: the cursor is None exactly when no item is stored, whatever the
\* filter hides
C27_CursorAbsentIffEmpty == (list.selected = None) <=> (list.items = <<>>)

\* an item was removed from a list whose filter hides every stored item: items
\* remain and the cursor is still set
C27_Witness ==
    /\ last.op = "remove"
    /\ last.hit
    /\ IsSome(list.search_regex)
    /\ filtered(list) = <<>>
    /\ list.items # <<>>
    /\ IsSome(list.selected)

----------------------------------------------------------------------------
(* Properties of the event handler                                         *)

\* the names stored in the services list
ServiceNames == { EntryId(services.items[i]) : i \in DOMAIN services.items }

\* C10: whenever the background thread is between two events, the services
\* list holds exactly the names found under the query and not removed
\* since, each of them once.
C10_ServicesAreFoundMinusRemoved ==
    bg.pc \in {"loop", "wait", "done"} =>
        /\ ServiceNames = tracked
        /\ NoDuplicates(services.items)

\* Found(q, a), Found(q, b), Removed(q, a) have been handled: only b is left
C10_Witness ==
    /\ bg.pc = "loop"
    /\ handled = 3
    /\ bg.ev = Event("ServiceRemoved", Query, <<"a">>, <<>>)
    /\ tracked = { <<"b">> }
    /\ services.items = << StringEntry(<<"b">>) >>

----------------------------------------------------------------------------
(* Properties of the two threads                                           *)

\* the keys of the instances map
MapKeys == { t \in Types : IsSome(instances[t]) }

\* the background thread has left its loop (returned or panicked)
BgExited == bg.pc \in {"done", "panicked"}

\* C11: whenever the foreground, holding the services lock, takes the lock
\* of the instances map, the keys of the map are the names stored in the
\* services list.
C11_MapKeysMatchServices ==
    [][ (FgDrawInstances \/ FgNavInstances) => MapKeys = ServiceNames ]_vars

\* C13: the daemon's shutdown() is called only after the background loop
\* has exited, never while it is waiting for or handling events.
C13_ShutdownAfterLoopExit ==
    fg.pc = "shutdown_call" => BgExited

\* C14: main returns (the process exits) only after the background thread
\* has terminated.
C14_ExitAfterBackgroundEnds ==
    ~Running => BgExited

\* C17: while the foreground draws a block or waits in poll, it holds
\* neither the services lock nor the instances lock.
C17_NoLockWhileDrawingOrPolling ==
    fg.pc \in {"draw_services", "draw_blocks", "poll"} =>
        /\ locks.services # "fg"
        /\ locks.instances # "fg"

\* C12: once the foreground has sent the stop signal the background loop
\* leaves its wait and exits; a process that has sent the signal and returned
\* from main has therefore a background loop that took the signal
C12_StopTakenBeforeExit == fg.pc = "exit" => bg.stop

\* the ids stored in the instance list of a type
StoredIds(m, t) ==
    IF IsSome(m[t])
    THEN { Unwrap(m[t]).items[i].id : i \in DOMAIN Unwrap(m[t]).items }
    ELSE {}

\* the instance full names stored in the instance list of a type
StoredNames(m, t) ==
    IF IsSome(m[t])
    THEN { Unwrap(m[t]).items[i].fullname : i \in DOMAIN Unwrap(m[t]).items }
    ELSE {}

\* C18 as stated: while the background thread is inside browse it holds no
\* lock at all
C18_NoLockDuringBrowse ==
    bg.pc = "found_browse" => \A l \in DOMAIN locks : locks[l] # "bg"

\* C18: while the background thread is inside browse, the locks it took to
\* update the services list and the instances map are released; the only lock
\* it holds is the daemon's own mutex
C18_DataLocksReleasedBeforeBrowse ==
    bg.pc = "found_browse" =>
        /\ locks.services # "bg"
        /\ locks.instances # "bg"

\* the background thread is inside browse for a type it has just added to the
\* services list and to the map
C18_Witness ==
    /\ bg.pc = "found_browse"
    /\ locks.mdns = "bg"
    /\ bg.ev.name \in ServiceNames
    /\ bg.ev.name \in MapKeys

\* C19: the step that handles a ServiceResolved event leaves the services
\* list alone; when the event's type is a key of the map, afterwards the list
\* under that key holds the event's host and every other key is as before;
\* when it is not, the map is as before (no key is created)
C19_ResolvedInsertsOnlyWhenTracked ==
    [][ (bg.pc = "resolved" /\ bg'.pc # "resolved") =>
            /\ services' = services
            /\ bg'.pc = "loop"
            /\ IF bg.ev.ty \in MapKeys
               THEN /\ bg.ev.host \in StoredIds(instances', bg.ev.ty)
                    /\ StoredIds(instances, bg.ev.ty) \subseteq
                           StoredIds(instances', bg.ev.ty)
                    /\ \A t \in Types \ {bg.ev.ty} : instances'[t] = instances[t]
               ELSE instances' = instances ]_vars

\* a ServiceResolved event for a type that is not a key of the map has been
\* handled
C19_Witness ==
    /\ bg.ev.kind = "ServiceResolved"
    /\ bg.pc = "loop"
    /\ bg.ev.ty \notin MapKeys
    /\ bg.ev.ty \in Range(receivers)

\* C20: once a ServiceRemoved event scoped to a type (not the query) has been
\* handled, the list of that type stores no instance with the event's full
\* name
C20_RemovedInstanceIsGone ==
    (bg.ev.kind = "ServiceRemoved" /\ bg.ev.ty # Query /\ bg.pc \in {"loop", "wait", "done"})
        => bg.ev.name \notin StoredNames(instances, bg.ev.ty)

\* C23: the pane-switch key maps to one tab: after a key press that changed
\* the tab, the same key would leave the tab where it is
C23_TabKeyIsIdempotent ==
    [][ (fg.pc = "poll" /\ current_tab' # current_tab)
            => switch_tab(current_tab') = current_tab' ]_vars

\* s is a subsequence of t: the elements of s occur in t in the same order
RECURSIVE IsSubseq(_, _)
IsSubseq(s, t) ==
    IF s = <<>> THEN TRUE
    ELSE IF t = <<>> THEN FALSE
    ELSE IF Head(s) = Head(t) THEN IsSubseq(Tail(s), Tail(t))
    ELSE IsSubseq(s, Tail(t))

\* the stored items of the instance list of a type (none without a key)
StoredItems(m, t) == IF IsSome(m[t]) THEN Unwrap(m[t]).items ELSE <<>>

\* the lists the application holds: the services list and every instance list
AppLists(sv, m) == {sv} \cup { Unwrap(m[t]) : t \in { u \in Types : IsSome(m[u]) } }

\* C22: a step of the foreground thread (the background thread stands still)
\* leaves the items of the services list, the items of every instance list
\* and the key set of the map as they were; and on every list the application
\* holds after a step that changed one of them, no key event and no filter
\* changes the items, and the view under any filter is a subsequence of the
\* items
C22_ForegroundKeepsStoredItems ==
    [][ /\ (bg' = bg) =>
              /\ services'.items = services.items
              /\ \A t \in Types :
                    /\ IsSome(instances'[t]) <=> IsSome(instances[t])
                    /\ StoredItems(instances', t) = StoredItems(instances, t)
        /\ (services' # services \/ instances' # instances) =>
              \A w \in AppLists(services', instances') :
                /\ IsSubseq(filtered(w), w.items)
                /\ \A key \in Keys : process_key_event(w, key).items = w.items
                /\ \A regex \in Patterns :
                      /\ update_filter(w, regex).items = w.items
                      /\ IsSubseq(filtered(update_filter(w, regex)), w.items)
      ]_vars

\* the foreground has moved the cursor of an instance list that stores two
\* instances
C22_Witness ==
    /\ current_tab = "Instances"
    /\ fg.pc = "draw"
    /\ \E t \in Types :
          /\ Len(StoredItems(instances, t)) = 2
          /\ Unwrap(instances[t]).selected = Some(1)

\* s is a prefix of t
IsPrefix(s, t) == Len(s) <= Len(t) /\ SubSeq(t, 1, Len(s)) = s

\* C21: the registry of receivers only grows; the step that registers the
\* receiver of a found type appends it, leaves the wait set in flight as it
\* is and returns to the loop; the wait set changes only when the loop builds
\* it, and a wait set built for a wait is the whole registry; a registration
\* that is due can always be done
C21_RegistryGrowsWaitSetRebuilt ==
    [][ /\ IsPrefix(receivers, receivers')
        /\ (bg.pc = "found_register" /\ bg'.pc # "found_register") =>
              /\ receivers' = Append(receivers, bg.ev.name)
              /\ waitset' = waitset
              /\ bg'.pc = "loop"
        /\ (waitset' # waitset) => bg.pc = "loop"
        /\ (bg.pc = "loop" /\ bg'.pc = "wait") => waitset' = receivers
        /\ (bg'.pc = "found_register" /\ fg'.pc \notin {"exit", "exit_err", "panicked"})
              => (ENABLED BgFoundRegister)'
      ]_vars

\* the loop waits again after a type was found and removed: the receiver
\* registered for it is still in the wait set
C21_Witness ==
    /\ bg.pc = "wait"
    /\ bg.ev.kind = "ServiceRemoved"
    /\ bg.ev.ty = Query
    /\ bg.ev.name \in Range(waitset)
    /\ bg.ev.name \notin MapKeys
    /\ bg.ev.name \notin ServiceNames

\* the panic hook set by init_error_hooks runs in the thread that panics, at
\* the panic: it restores the terminal and prints the report
PanicReported == bg.pc = "panicked"

\* the foreground is in App::shutdown or main has returned
InShutdown ==
    fg.pc \in {"shutdown_send", "shutdown_lock", "shutdown_call",
               "exit", "exit_err", "panicked"}

\* C24: a failed browse ends the background thread, and its failure reaches
\* the user at shutdown and not before: while the foreground is still in its
\* draw / poll loop nothing has been reported
C24_FailureSurfacesOnlyAtShutdown == PanicReported => InShutdown

NoLock == "none"

\* the lock the foreground thread is about to take
FgWaitsFor ==
    CASE fg.pc \in {"draw", "draw_selected", "nav"} -> "services"
      [] fg.pc \in {"draw_instances", "nav_instances"} -> "instances"
      [] fg.pc = "shutdown_lock" -> "mdns"
      [] OTHER -> NoLock

\* the lock the background thread is about to take
BgWaitsFor ==
    CASE bg.pc \in {"found_lock_services", "removed_services"} -> "services"
      [] bg.pc \in {"found_lock_instances", "resolved", "removed_instances",
                    "removed_instance"} -> "instances"
      [] bg.pc = "found_lock_mdns" -> "mdns"
      [] OTHER -> NoLock

\* the locks a thread holds
Held(thread) == { l \in DOMAIN locks : locks[l] = thread }

\* C25: the two threads are never each waiting for a lock the other holds;
\* the foreground waits for a lock while holding one only for the instances
\* lock with the services lock held; the background never waits for a lock
\* while it holds one
C25_NoLockCycle ==
    /\ ~ ( /\ FgWaitsFor \in Held("bg")
           /\ BgWaitsFor \in Held("fg") )
    /\ (FgWaitsFor # NoLock /\ Held("fg") # {}) =>
            (FgWaitsFor = "instances" /\ Held("fg") = {"services"})
    /\ (BgWaitsFor # NoLock) => Held("bg") = {}

\* the foreground holds the services lock and waits for the instances lock,
\* which the background thread holds
C25_Witness ==
    /\ FgWaitsFor = "instances"
    /\ Held("fg") = {"services"}
    /\ Held("bg") = {"instances"}

\* C26: unless the step handles a ServiceRemoved event, the instances stored
\* for a type stay stored, in their order; and the step that handles a
\* ServiceFound for a type that already has a list leaves that list (items,
\* cursor and filter) as it is
C26_InstancesStayUntilRemoved ==
    [][ /\ bg.pc \notin {"removed_instances", "removed_instance"} =>
              \A t \in Types :
                  IsPrefix(StoredItems(instances, t), StoredItems(instances', t))
        /\ ( /\ bg.pc = "found_insert"
             /\ bg'.pc # "found_insert"
             /\ IsSome(instances[bg.ev.name]) ) =>
                  instances'[bg.ev.name] = instances[bg.ev.name]
      ]_vars

=============================================================================
